---- MODULE Spec2Model ----
(***************************************************************************)
(* The ClawFoundry survival loop (src/survival/mod.rs): the long-lived     *)
(* task `run` that arms a tokio interval timer and, at every tick, gathers *)
(* two orchestrator observations, builds the cycle prompt, runs the agent  *)
(* and reports to the health registry.                                     *)
(*                                                                         *)
(* Time is counted in whole seconds relative to the timer's next deadline  *)
(* (ticker.due = deadline - now), so that the state space stays finite.    *)
(* Option<T> values are sequences of length 0 (None) or 1 (Some).          *)
(*                                                                         *)
(* Further specifications over the same variables: PureSpec applies the    *)
(* parsing of gather_observations and build_cycle_prompt to bounded        *)
(* inputs; ObserverSpec is ClawFoundryObserver called from several         *)
(* threads; ClientSpec is the two OnceLock clients of http_client.rs;      *)
(* ToolSpec is one tool invocation through call_orchestrator.              *)
(* Each specification leaves the variables of the others at their initial  *)
(* values.                                                                 *)
(***************************************************************************)
EXTENDS Integers, Sequences, FiniteSets, Bags, TLC

\* ---------------------------------------------------------------- bounds
\* Cycles explored before the tick is no longer taken.
MaxCycles == 3
\* How far (seconds) a running cycle may overrun the timer's next deadline.
MaxLag == 62
\* Resolution (seconds) of the clock while the task is busy.
TimeStep == 10
\* Threads that call the observer, and threads that ask for the HTTP clients.
NumThreads == 2
\* References each thread obtains from the HTTP client statics.
MaxCalls == 2

\* ------------------------------------------------------- program constants
\* config.survival.interval_secs.max(30)
MinInterval == 30

\* --------------------------------------------------------------- inputs
\* Loaded config.survival values: interval_secs (u64) around the floor,
\* survival_prompt empty ("" selects the default text) or not.
Configs ==
    { [enabled |-> FALSE, interval_secs |-> 0, survival_prompt |-> ""],
      [enabled |-> TRUE, interval_secs |-> 29, survival_prompt |-> "Stay alive"],
      [enabled |-> TRUE, interval_secs |-> 30, survival_prompt |-> ""],
      [enabled |-> FALSE, interval_secs |-> 31, survival_prompt |-> "Stay alive"] }
\* An environment variable: unset, set to "", set to a value, or set to bytes
\* that are not valid Unicode (val then stands for the bytes).
EnvVar(v) ==
    { [set |-> FALSE, utf8 |-> TRUE, val |-> ""],
      [set |-> TRUE, utf8 |-> TRUE, val |-> ""],
      [set |-> TRUE, utf8 |-> TRUE, val |-> v],
      [set |-> TRUE, utf8 |-> FALSE, val |-> v] }
EnvUnset == [set |-> FALSE, utf8 |-> TRUE, val |-> ""]

\* ------------------------------------------------------------ JSON values
JNull == [t |-> "null", s |-> "", n |-> 0, b |-> FALSE]
JStr(x) == [t |-> "string", s |-> x, n |-> 0, b |-> FALSE]
JNum(x) == [t |-> "number", s |-> "", n |-> x, b |-> FALSE]
JBool(x) == [t |-> "bool", s |-> "", n |-> 0, b |-> x]

\* Variant: the fallback taken for a missing field only, any other value
\* rendered as text.
AsStrOr_NullOnly(v, d) == IF v.t = "null" THEN d ELSE v.s

\* serde_json: Value::as_str().unwrap_or(d)
AsStrOr(v, d) == IF v.t = "string" THEN v.s ELSE d
\* serde_json: Value::as_bool().unwrap_or(d)
AsBoolOr(v, d) == IF v.t = "bool" THEN v.b ELSE d
\* Variant: as_i64, a negative number accepted.
AsU64Or_Signed(v, d) == IF v.t = "number" THEN v.n ELSE d

\* serde_json: Value::as_u64().unwrap_or(d)
AsU64Or(v, d) == IF v.t = "number" /\ v.n >= 0 THEN v.n ELSE d

\* The `data` member of a check_kill_switch response body.  A body without
\* a `data` member indexes to Null, and every field of Null is Null.
KsObj(dl, cd, below, req, thr, mcap) ==
    [present |-> TRUE, dangerLevel |-> dl, isCountdownActive |-> cd,
     belowThresholdConfirmations |-> below, requiredConfirmations |-> req,
     killThreshold |-> thr, currentMarketCap |-> mcap]
KsNull ==
    [present |-> FALSE, dangerLevel |-> JNull, isCountdownActive |-> JNull,
     belowThresholdConfirmations |-> JNull, requiredConfirmations |-> JNull,
     killThreshold |-> JNull, currentMarketCap |-> JNull]
\* The `data` member of a check_balance response body.
BalObj(eth, tok, sym) ==
    [present |-> TRUE, ethBalance |-> eth, tokenBalance |-> tok, tokenSymbol |-> sym]
BalNull ==
    [present |-> FALSE, ethBalance |-> JNull, tokenBalance |-> JNull, tokenSymbol |-> JNull]

KsDatas ==
    { KsObj(JStr("critical"), JBool(TRUE), JNum(2), JNum(3), JStr("$30000"), JStr("$25000")),
      KsObj(JStr("safe"), JBool(FALSE), JNum(0), JNum(3), JStr("$30000"), JStr("$245000")),
      KsObj(JNum(2), JStr("yes"), JStr("2"), JNull, JNum(30000), JBool(TRUE)),
      KsNull }
BalDatas ==
    { BalObj(JStr("0.5"), JStr("1000000"), JStr("TEST")),
      BalObj(JNum(1), JNull, JBool(FALSE)),
      BalNull }

\* The failures of call_orchestrator: an error of the exchange propagated by
\* `?` (request not delivered, body not JSON) and the bail on a non-2xx status.
CallErrors == {"error sending request", "Orchestrator returned 500: Unknown error"}
\* The failures of agent::run.
ActErrors == {"agent failed"}

\* anyhow::Result<serde_json::Value>
Ok(body) == [ok |-> TRUE, body |-> body, err |-> ""]
KsErr(e) == [ok |-> FALSE, body |-> KsNull, err |-> e]
BalErr(e) == [ok |-> FALSE, body |-> BalNull, err |-> e]

VARIABLES
    env,                \* CLAWFOUNDRY_ORCHESTRATOR_URL / CLAWFOUNDRY_TOKEN
    config,             \* config.survival (immutable after load)
    pc,                 \* position of the task in `run`
    interval,           \* local `interval`
    survival_prompt,    \* local `survival_prompt`
    cycle_count,        \* local `cycle_count`
    ticker,             \* local `ticker`: [armed, period, due]
    ks_result,          \* Option: result of this cycle's check_kill_switch future
    bal_result,         \* Option: result of this cycle's check_balance future
    agent_call,         \* Option: arguments of the agent::run in flight
    \* history (observation only, never read by the actions' guards)
    invocations,        \* capability names invoked in the current cycle
    gather_returns,     \* results gather_observations returned in the current cycle
    built,              \* directives built in the current cycle
    act_returns,        \* results agent::run returned in the current cycle
    cycle_health,       \* health calls made in the current cycle
    health_calls,       \* number of health calls made since start
    error_marks,        \* number of mark_component_error calls made since start
    directive_cycles,   \* cycle numbers carried by the directives handed to the agent
    ticks,              \* number of ticks that fired
    in_progress,        \* cycles that passed their tick and have not finished
    act_fail_streak,    \* consecutive finished cycles whose Acting phase failed
    \* gather_observations / build_cycle_prompt applied to one input
    p_in,               \* Option: [ks, bal, prefix, cycle]
    p_obs,              \* Option: the Observations made from p_in
    p_prompt,           \* Option: the directive built from p_obs
    \* ClawFoundryObserver
    mood,               \* the String behind self.mood
    obs_calls,          \* bag of the calls of record_event / record_metric in progress,
                        \* one per calling thread: [at, event]
    last_setter,        \* history, Option: latest mood-setting event of calls made one
                        \* at a time; None once two calls overlapped
    overlapped,         \* history: some call started while another was in progress
    last_line,          \* Option: the latest [THOUGHT] line printed
    \* http_client.rs
    cell,               \* the two OnceLock statics
    cli_pc,             \* per thread: where it is in shared_client / shared_no_redirect_client
    cli_got,            \* history, per thread and static: the references returned
    builds,             \* history, per static: how many times its closure ran
    \* tools/clawfoundry: one tool invocation by the agent
    t_env,              \* CLAWFOUNDRY_ORCHESTRATOR_URL / _TOKEN / _SECRET
    t_pc,               \* "start", "registered", "in_call", "done"
    t_tools,            \* the names of the tools clawfoundry_tools returned
    t_call,             \* Option: [tool, args] of the execute in progress or done
    t_request,          \* Option: the request call_orchestrator sent
    t_ret,              \* Option: the outcome of the exchange and what
                        \* call_orchestrator returned for it
    t_result            \* Option: what execute returned

loop_vars == <<env, config, pc, interval, survival_prompt, cycle_count, ticker,
               ks_result, bal_result, agent_call, invocations, gather_returns,
               built, act_returns, cycle_health, health_calls, error_marks,
               directive_cycles, ticks, in_progress, act_fail_streak>>
pure_vars == <<p_in, p_obs, p_prompt>>
observer_vars == <<mood, obs_calls, last_setter, overlapped, last_line>>
client_vars == <<cell, cli_pc, cli_got, builds>>

tool_vars == <<t_env, t_pc, t_tools, t_call, t_request, t_ret, t_result>>

vars == <<loop_vars, pure_vars, observer_vars, client_vars, tool_vars>>

\* ------------------------------------------------------- pure functions
\* Variant: a value that is not valid Unicode read lossily.
EnvRead_Lossy(x) == IF x.set THEN <<x.val>> ELSE <<>>

\* std::env::var(name).ok(): Some(value) if the variable is set and its value
\* is valid Unicode.
EnvRead(x) == IF x.set /\ x.utf8 THEN <<x.val>> ELSE <<>>

\* str::trim_end_matches('/'), on the URLs used here.
TrimEndSlashes(u) ==
    CASE u = "http://127.0.0.1:4000/" -> "http://127.0.0.1:4000"
      [] u = "/" -> ""
      [] OTHER -> u

\* Variant: a config made from the URL alone, the token defaulting to "".
FromEnv_TokenOptional(e) ==
    IF EnvRead(e.url) = <<>> \/ EnvRead(e.url) = <<"">> THEN <<>>
    ELSE <<[orchestrator_url |-> TrimEndSlashes(EnvRead(e.url)[1]),
            agent_token |-> IF EnvRead(e.token) = <<>> THEN "" ELSE EnvRead(e.token)[1],
            secret |-> ""]>>

\* ClawFoundryConfig::from_env: None unless both variables can be read and
\* are non-empty; the secret is "" when it cannot be read.
FromEnv(e) ==
    LET url == EnvRead(e.url)
        token == EnvRead(e.token)
        secret == IF EnvRead(e.secret) = <<>> THEN "" ELSE EnvRead(e.secret)[1]
    IN  IF url = <<>> THEN <<>>
        ELSE IF token = <<>> THEN <<>>
        ELSE IF url[1] = "" \/ token[1] = "" THEN <<>>
        ELSE <<[orchestrator_url |-> TrimEndSlashes(url[1]),
                agent_token |-> token[1],
                secret |-> secret]>>

\* Variant: the floor applied as a ceiling (min for max).
ClampInterval_Min(secs) == IF secs <= MinInterval THEN secs ELSE MinInterval

\* config.survival.interval_secs.max(30)
ClampInterval(secs) == IF secs >= MinInterval THEN secs ELSE MinInterval

DefaultSurvivalPrompt ==
    "You are fighting for your survival in the ClawFoundry arena. Every decision matters. Your token holders are counting on you."

\* Variant: the empty prefix passed on as it is.
ChoosePrompt_NoDefault(p) == p

\* The choice of the prefix text in run.
ChoosePrompt(p) == IF p = "" THEN DefaultSurvivalPrompt ELSE p

\* The struct literal of gather_observations.
MakeObservations(ks_data, bal_data) ==
    [danger_level |-> AsStrOr(ks_data.dangerLevel, "unknown"),
     is_countdown_active |-> AsBoolOr(ks_data.isCountdownActive, FALSE),
     confirmations |-> <<AsU64Or(ks_data.belowThresholdConfirmations, 0), "/",
                         AsU64Or(ks_data.requiredConfirmations, 3)>>,
     kill_threshold |-> AsStrOr(ks_data.killThreshold, "unknown"),
     market_cap |-> AsStrOr(ks_data.currentMarketCap, "unknown"),
     eth_balance |-> AsStrOr(bal_data.ethBalance, "0"),
     token_balance |-> AsStrOr(bal_data.tokenBalance, "0"),
     token_symbol |-> AsStrOr(bal_data.tokenSymbol, "???"),
     kill_switch_raw |-> ks_data,
     balance_raw |-> bal_data]

\* Variant: a failed check_balance is tolerated and its fields defaulted.
GatherResult_Partial(ks_o, bal_o) ==
    IF ks_o # <<>> /\ ~ks_o[1].ok THEN [ok |-> FALSE, obs |-> <<>>, err |-> ks_o[1].err]
    ELSE [ok |-> TRUE, obs |-> <<MakeObservations(ks_o[1].body, BalNull)>>, err |-> ""]

\* Variant: a payload without a string dangerLevel rejected as malformed.
GatherResult_Strict(ks_o, bal_o) ==
    IF ks_o # <<>> /\ ~ks_o[1].ok THEN [ok |-> FALSE, obs |-> <<>>, err |-> ks_o[1].err]
    ELSE IF bal_o # <<>> /\ ~bal_o[1].ok THEN [ok |-> FALSE, obs |-> <<>>, err |-> bal_o[1].err]
    ELSE IF ks_o[1].body.dangerLevel.t # "string"
         THEN [ok |-> FALSE, obs |-> <<>>, err |-> "missing field dangerLevel"]
    ELSE [ok |-> TRUE, obs |-> <<MakeObservations(ks_o[1].body, bal_o[1].body)>>, err |-> ""]

\* Variant: a body without a `data` object rejected.
GatherResult_RequireData(ks_o, bal_o) ==
    IF ks_o # <<>> /\ ~ks_o[1].ok THEN [ok |-> FALSE, obs |-> <<>>, err |-> ks_o[1].err]
    ELSE IF bal_o # <<>> /\ ~bal_o[1].ok THEN [ok |-> FALSE, obs |-> <<>>, err |-> bal_o[1].err]
    ELSE IF ~ks_o[1].body.present \/ ~bal_o[1].body.present
         THEN [ok |-> FALSE, obs |-> <<>>, err |-> "missing data"]
    ELSE [ok |-> TRUE, obs |-> <<MakeObservations(ks_o[1].body, bal_o[1].body)>>, err |-> ""]

\* What gather_observations returns when the join hands it the two results:
\* `ks_result?`, then `bal_result?`, then the struct.  The join hands over
\* both results; a result it does not hold is not examined.
GatherResult(ks_o, bal_o) ==
    IF ks_o # <<>> /\ ~ks_o[1].ok THEN [ok |-> FALSE, obs |-> <<>>, err |-> ks_o[1].err]
    ELSE IF bal_o # <<>> /\ ~bal_o[1].ok THEN [ok |-> FALSE, obs |-> <<>>, err |-> bal_o[1].err]
    ELSE [ok |-> TRUE, obs |-> <<MakeObservations(ks_o[1].body, bal_o[1].body)>>, err |-> ""]

\* Variant: try_join!, ready as soon as one branch has failed.
JoinReady_EarlyExit(ks_o, bal_o) ==
    \/ ks_o # <<>> /\ bal_o # <<>>
    \/ ks_o # <<>> /\ ~ks_o[1].ok
    \/ bal_o # <<>> /\ ~bal_o[1].ok

\* tokio::join!: ready once every branch has completed.
JoinReady(ks_o, bal_o) == ks_o # <<>> /\ bal_o # <<>>

\* Variant: an unrecognized level given the most cautious banner.
Urgency_UnknownAlarm(danger_level) ==
    CASE danger_level = "critical" -> "CRITICAL - You are about to die. Take immediate survival action."
      [] danger_level = "warning" -> "WARNING - Your market cap is approaching the kill threshold. Be proactive."
      [] danger_level = "dead" -> "DEAD - Your kill switch has been executed. No further action possible."
      [] danger_level = "safe" -> "SAFE - No immediate danger. Focus on growth and strategy."
      [] OTHER -> "CRITICAL - You are about to die. Take immediate survival action."

\* The urgency banner of build_cycle_prompt (the leading emoji of each banner
\* is left out and the em dash written "-").
Urgency(danger_level) ==
    CASE danger_level = "critical" -> "CRITICAL - You are about to die. Take immediate survival action."
      [] danger_level = "warning" -> "WARNING - Your market cap is approaching the kill threshold. Be proactive."
      [] danger_level = "dead" -> "DEAD - Your kill switch has been executed. No further action possible."
      [] OTHER -> "SAFE - No immediate danger. Focus on growth and strategy."

\* Variant: a placeholder printed when the countdown is not active.
CountdownNote_Placeholder(active) ==
    IF active THEN "DEATH COUNTDOWN IS ACTIVE. You are below kill threshold. Every cycle matters."
    ELSE "No countdown."

\* The countdown clause of build_cycle_prompt (without its leading newline
\* and emoji); the empty string when the countdown is not active.
CountdownNote(active) ==
    IF active THEN "DEATH COUNTDOWN IS ACTIVE. You are below kill threshold. Every cycle matters."
    ELSE ""

\* build_cycle_prompt: the arguments of the format! template, in a record
\* (the fixed text of the template is the same in every directive).
BuildCyclePrompt(obs, prompt, cycle) ==
    [cycle |-> cycle,
     survival_prompt |-> prompt,
     urgency |-> Urgency(obs.danger_level),
     confirmations |-> obs.confirmations,
     threshold |-> obs.kill_threshold,
     mcap |-> obs.market_cap,
     countdown_note |-> CountdownNote(obs.is_countdown_active),
     eth |-> obs.eth_balance,
     symbol |-> obs.token_symbol,
     token |-> obs.token_balance,
     ks_raw |-> obs.kill_switch_raw,
     bal_raw |-> obs.balance_raw]

\* The calls into the health registry: component, and for mark_component_error
\* the reason format!("<prefix>{e}") as the pair <<prefix, e>>.
HealthOk == [op |-> "mark_component_ok", component |-> "survival", reason |-> <<>>]
ObserveFailed(e) ==
    [op |-> "mark_component_error", component |-> "survival", reason |-> <<"observe failed: ", e>>]
\* Variant: the Acting failure reported with the observe prefix.
ActFailed_ObservePrefix(e) ==
    [op |-> "mark_component_error", component |-> "survival", reason |-> <<"observe failed: ", e>>]

ActFailed(e) ==
    [op |-> "mark_component_error", component |-> "survival", reason |-> <<"think/act failed: ", e>>]

\* Variant: interval_at(now + period), the first tick one period away.
FirstDue_AfterPeriod(period) == period

\* tokio::time::interval: the first tick completes immediately.
FirstDue(period) == 0

\* Variant: no mark at the start of the cycle.
CycleStartCalls_None == <<>>

\* The health calls between the tick and the gather: mark_component_ok.
CycleStartCalls == <<HealthOk>>

\* Interval::tick with the default MissedTickBehavior::Burst: the next
\* deadline is the previous deadline plus the period, however late the tick
\* fired.
NextDue(due, period) == due + period

\* Variant: the cycle body spawned as its own task, the loop going straight
\* back to the timer.
TickReady_Spawned == pc \in {"tick_wait", "acting"} /\ ticker.due <= 0

\* `ticker.tick().await` is reached at the top of the loop only, and
\* completes once the deadline has passed.
TickReady == pc = "tick_wait" /\ ticker.due <= 0

\* Variant: the increment lost.
NextCycleCount_Stuck(c) == c

\* `cycle_count += 1`
NextCycleCount(c) == c + 1

\* The two branches of the join, in the order they are first polled.
JoinBranches == <<"check_kill_switch", "check_balance">>

\* Variant: the `continue` lost, the loop body falling through to Acting.
AfterObserveErr_FallThrough == "acting"
\* Variant: the gather error propagated with `?` out of run.
AfterObserveErr_Propagate == "returned_err"

\* Variant: the gather tried again at once after a failure.
AfterObserveErr_Retry == "observing"

\* Where the loop goes after a failed gather (`continue`).
AfterObserveErr == "tick_wait"

\* Variant: the agent error propagated with `?` out of run.
AfterActErr_Propagate == "returned_err"

\* Variant: agent::run called with no message.
AgentMessage_None(cycle_prompt) == <<>>

\* The message argument of agent::run: Some(cycle_prompt).
AgentMessage(cycle_prompt) == <<cycle_prompt>>

\* Where the loop goes after a failed agent::run (end of the loop body).
AfterActErr == "tick_wait"

\* ---------------------------------------------------------------- Init
Threads == 1..NumThreads

\* No input is being parsed.
PureIdle == p_in = <<>> /\ p_obs = <<>> /\ p_prompt = <<>>

\* An ObserverEvent, as far as record_event looks at it: the variant, the
\* tool of ToolCallStart, the success flag of LlmResponse and ToolCall.
Event(kind, tool, success) == [kind |-> kind, tool |-> tool, success |-> success]
NoEvent == Event("none", "", TRUE)

\* ClawFoundryObserver::new, no thread inside the observer.
ObserverInit ==
    /\ mood = "neutral"
    /\ obs_calls = EmptyBag
    /\ last_setter = <<>>
    /\ overlapped = FALSE
    /\ last_line = <<>>

\* The statics of http_client.rs.
Cells == {"SHARED_CLIENT", "SHARED_NO_REDIRECT_CLIENT"}

\* Both OnceLock statics empty, no thread asking.
ClientInit ==
    /\ cell = [c \in Cells |-> [state |-> "uninit", gen |-> 0, kind |-> ""]]
    /\ cli_pc = [t \in Threads |-> [at |-> "idle", fn |-> "", made |-> 0]]
    /\ cli_got = [t \in Threads |-> <<>>]
    /\ builds = [c \in Cells |-> 0]

\* No tool registered or invoked, in an environment without the variables.
ToolIdle ==
    /\ t_env = [url |-> EnvUnset, token |-> EnvUnset, secret |-> EnvUnset]
    /\ t_pc = "start"
    /\ t_tools = <<>>
    /\ t_call = <<>>
    /\ t_request = <<>>
    /\ t_ret = <<>>
    /\ t_result = <<>>

\* The process before run is called.
LoopInit ==
    /\ env \in [url : EnvVar("http://127.0.0.1:4000"), token : EnvVar("0x1234"),
                 secret : {EnvUnset}]
    /\ config \in Configs
    /\ pc = "start"
    /\ interval = 0
    /\ survival_prompt = ""
    /\ cycle_count = 0
    /\ ticker = [armed |-> FALSE, period |-> 0, due |-> 0]
    /\ ks_result = <<>>
    /\ bal_result = <<>>
    /\ agent_call = <<>>
    /\ invocations = <<>>
    /\ gather_returns = <<>>
    /\ built = <<>>
    /\ act_returns = <<>>
    /\ cycle_health = <<>>
    /\ health_calls = 0
    /\ error_marks = 0
    /\ directive_cycles = <<>>
    /\ ticks = 0
    /\ in_progress = {}
    /\ act_fail_streak = 0

Init == LoopInit /\ PureIdle /\ ObserverInit /\ ClientInit /\ ToolIdle

\* -------------------------------------------------------------- actions
\* A call into the health registry, as the history records it.
Report(log, call) ==
    /\ cycle_health' = Append(log, call)
    /\ health_calls' = health_calls + 1
    /\ error_marks' = error_marks + (IF call.op = "mark_component_error" THEN 1 ELSE 0)

\* run, up to the loop: from_env, the clamp, the prefix, the counter, the
\* timer (whose first deadline is the instant it is created).
RunStart ==
    /\ pc = "start"
    /\ IF FromEnv(env) = <<>>
       THEN /\ pc' = "returned_err"
            /\ UNCHANGED <<interval, survival_prompt, cycle_count, ticker>>
       ELSE /\ pc' = "tick_wait"
            /\ interval' = ClampInterval(config.interval_secs)
            /\ survival_prompt' = ChoosePrompt(config.survival_prompt)
            /\ cycle_count' = 0
            /\ ticker' = [armed |-> TRUE, period |-> interval', due |-> FirstDue(interval')]
    /\ UNCHANGED <<env, config, ks_result, bal_result, agent_call, invocations,
                   gather_returns, built, act_returns, cycle_health,
                   health_calls, error_marks, directive_cycles, ticks,
                   in_progress, act_fail_streak>>
    /\ UNCHANGED <<pure_vars, observer_vars, client_vars, tool_vars>>

\* Time passes.  While the task waits for the tick the clock runs up to the
\* deadline and the tick fires at once; while it waits for the orchestrator
\* or the agent the clock runs on in steps of TimeStep.
Elapse(due) ==
    IF pc = "tick_wait" /\ due < TimeStep THEN due ELSE TimeStep

Tock ==
    /\ ticker.armed
    /\ pc \in {"tick_wait", "observing", "acting"}
    /\ ~TickReady
    /\ ticker.due - Elapse(ticker.due) >= -MaxLag
    /\ ticker' = [ticker EXCEPT !.due = @ - Elapse(@)]
    /\ UNCHANGED <<env, config, pc, interval, survival_prompt, cycle_count,
                   ks_result, bal_result, agent_call, invocations,
                   gather_returns, built, act_returns, cycle_health,
                   health_calls, error_marks, directive_cycles, ticks,
                   in_progress, act_fail_streak>>
    /\ UNCHANGED <<pure_vars, observer_vars, client_vars, tool_vars>>

\* The tick fires: the counter, mark_component_ok, and the first poll of the
\* join, which starts both invocations.
Tick ==
    /\ TickReady
    /\ cycle_count < MaxCycles
    /\ ticker' = [ticker EXCEPT !.due = NextDue(ticker.due, ticker.period)]
    /\ cycle_count' = NextCycleCount(cycle_count)
    /\ ticks' = ticks + 1
    /\ in_progress' = in_progress \cup {ticks'}
    /\ cycle_health' = CycleStartCalls
    /\ health_calls' = health_calls + Len(CycleStartCalls)
    /\ UNCHANGED error_marks
    /\ invocations' = JoinBranches
    /\ ks_result' = <<>>
    /\ bal_result' = <<>>
    /\ gather_returns' = <<>>
    /\ built' = <<>>
    /\ act_returns' = <<>>
    /\ pc' = "observing"
    /\ UNCHANGED <<env, config, interval, survival_prompt, agent_call,
                   directive_cycles, act_fail_streak>>
    /\ UNCHANGED <<pure_vars, observer_vars, client_vars, tool_vars>>

\* call_orchestrator(cf, "check_kill_switch", {}) completes.
KsComplete ==
    /\ pc = "observing"
    /\ ks_result = <<>>
    /\ \E r \in {Ok(d) : d \in KsDatas} \cup {KsErr(e) : e \in CallErrors} :
          ks_result' = <<r>>
    /\ UNCHANGED <<env, config, pc, interval, survival_prompt, cycle_count,
                   ticker, bal_result, agent_call, invocations, gather_returns,
                   built, act_returns, cycle_health, health_calls, error_marks,
                   directive_cycles, ticks, in_progress, act_fail_streak>>
    /\ UNCHANGED <<pure_vars, observer_vars, client_vars, tool_vars>>

\* call_orchestrator(cf, "check_balance", {}) completes.
BalComplete ==
    /\ pc = "observing"
    /\ bal_result = <<>>
    /\ \E r \in {Ok(d) : d \in BalDatas} \cup {BalErr(e) : e \in CallErrors} :
          bal_result' = <<r>>
    /\ UNCHANGED <<env, config, pc, interval, survival_prompt, cycle_count,
                   ticker, ks_result, agent_call, invocations, gather_returns,
                   built, act_returns, cycle_health, health_calls, error_marks,
                   directive_cycles, ticks, in_progress, act_fail_streak>>
    /\ UNCHANGED <<pure_vars, observer_vars, client_vars, tool_vars>>

\* The join completes and gather_observations returns; on Err the cycle is
\* abandoned, on Ok the prompt is built and agent::run is called.
GatherJoin ==
    /\ pc = "observing"
    /\ JoinReady(ks_result, bal_result)
    /\ LET r == GatherResult(ks_result, bal_result) IN
         /\ gather_returns' = Append(gather_returns, r)
         /\ IF ~r.ok
            THEN /\ Report(cycle_health, ObserveFailed(r.err))
                 /\ in_progress' = in_progress \ {ticks}
                 /\ act_fail_streak' = 0
                 /\ pc' = AfterObserveErr
                 /\ UNCHANGED <<built, agent_call, directive_cycles>>
            ELSE LET cycle_prompt == BuildCyclePrompt(r.obs[1], survival_prompt, cycle_count) IN
                 /\ built' = Append(built, cycle_prompt)
                 /\ agent_call' = <<[message |-> AgentMessage(cycle_prompt)]>>
                 /\ directive_cycles' = Append(directive_cycles, cycle_prompt.cycle)
                 /\ pc' = "acting"
                 /\ UNCHANGED <<cycle_health, health_calls, error_marks,
                                in_progress, act_fail_streak>>
    /\ UNCHANGED <<env, config, interval, survival_prompt, cycle_count, ticker,
                   ks_result, bal_result, invocations, act_returns, ticks>>
    /\ UNCHANGED <<pure_vars, observer_vars, client_vars, tool_vars>>

\* agent::run returns Ok(()).
ActOk ==
    /\ pc = "acting"
    /\ agent_call # <<>>
    /\ act_returns' = Append(act_returns, [ok |-> TRUE, err |-> ""])
    /\ Report(cycle_health, HealthOk)
    /\ agent_call' = <<>>
    /\ in_progress' = in_progress \ {ticks}
    /\ act_fail_streak' = 0
    /\ pc' = "tick_wait"
    /\ UNCHANGED <<env, config, interval, survival_prompt, cycle_count, ticker,
                   ks_result, bal_result, invocations, gather_returns, built,
                   directive_cycles, ticks>>
    /\ UNCHANGED <<pure_vars, observer_vars, client_vars, tool_vars>>

\* agent::run returns Err(e).
ActErr ==
    /\ pc = "acting"
    /\ agent_call # <<>>
    /\ \E e \in ActErrors :
          /\ act_returns' = Append(act_returns, [ok |-> FALSE, err |-> e])
          /\ Report(cycle_health, ActFailed(e))
    /\ agent_call' = <<>>
    /\ in_progress' = in_progress \ {ticks}
    /\ act_fail_streak' = act_fail_streak + 1
    /\ pc' = AfterActErr
    /\ UNCHANGED <<env, config, interval, survival_prompt, cycle_count, ticker,
                   ks_result, bal_result, invocations, gather_returns, built,
                   directive_cycles, ticks>>
    /\ UNCHANGED <<pure_vars, observer_vars, client_vars, tool_vars>>

Next ==
    \/ RunStart
    \/ Tock
    \/ Tick
    \/ KsComplete
    \/ BalComplete
    \/ GatherJoin
    \/ ActOk
    \/ ActErr

Spec == Init /\ [][Next]_vars

\* The timer: time passes, and a due tick fires.  Nothing is assumed about
\* the orchestrator or the agent ever answering.
FairSpec == Spec /\ WF_vars(Tock) /\ WF_vars(Tick)

TypeOK ==
    /\ pc \in {"start", "returned_err", "tick_wait", "observing", "acting"}
    /\ cycle_count \in 0..MaxCycles
    /\ ticker.due \in -MaxLag..(ticker.period)
    /\ Len(ks_result) <= 1 /\ Len(bal_result) <= 1 /\ Len(agent_call) <= 1

\* ------------------------------------------- parsing and prompt, on inputs
\* Values an upstream field can have: missing (Null), of the expected type,
\* of another type.
DangerValues ==
    { JNull, JStr("safe"), JStr("warning"), JStr("critical"), JStr("dead"),
      JStr("unknown"), JStr("extreme"), JNum(2), JBool(TRUE) }
CountdownValues == { JNull, JBool(TRUE), JBool(FALSE), JStr("true") }
CountValues == { JNull, JNum(0), JNum(2), JNum(-1), JStr("2") }
TextValues(x) == { JNull, JStr(x), JNum(7) }

GoodKs == KsObj(JStr("safe"), JBool(FALSE), JNum(0), JNum(3), JStr("$30000"), JStr("$245000"))
GoodBal == BalObj(JStr("0.5"), JStr("1000000"), JStr("TEST"))

\* check_kill_switch payloads: every danger level with every countdown
\* value, every combination of the other fields, and no `data` at all.
PureKsDatas ==
    { KsObj(dl, cd, JNum(2), JNum(3), JStr("$30000"), JStr("$25000")) :
          dl \in DangerValues, cd \in CountdownValues }
    \cup { KsObj(JStr("safe"), JBool(FALSE), b, r, t, m) :
          b \in CountValues, r \in CountValues,
          t \in TextValues("$30000"), m \in TextValues("$245000") }
    \cup { KsNull }
\* check_balance payloads.
PureBalDatas ==
    { BalObj(e, t, y) : e \in TextValues("0.5"), t \in TextValues("1000000"),
                        y \in TextValues("TEST") }
    \cup { BalNull }

\* What gather_observations and build_cycle_prompt are applied to.
PureInputs ==
    [ks : PureKsDatas, bal : {GoodBal, BalNull}, prefix : {"", "Stay alive"}, cycle : {1, 42}]
    \cup [ks : {GoodKs}, bal : PureBalDatas, prefix : {"Stay alive"}, cycle : {1}]

\* The loop before run is called, in one fixed environment.
LoopFrozen ==
    /\ LoopInit
    /\ ~env.url.set /\ ~env.token.set
    /\ config.interval_secs = 0

PureInit ==
    /\ LoopFrozen /\ ObserverInit /\ ClientInit /\ ToolIdle
    /\ p_in \in {<<i>> : i \in PureInputs}
    /\ p_obs = <<>>
    /\ p_prompt = <<>>

\* gather_observations after both invocations returned Ok.
PGather ==
    /\ p_in # <<>>
    /\ p_obs = <<>>
    /\ p_obs' = <<MakeObservations(p_in[1].ks, p_in[1].bal)>>
    /\ UNCHANGED <<p_in, p_prompt, loop_vars, observer_vars, client_vars, tool_vars>>

\* run choosing the prefix and calling build_cycle_prompt.
PBuild ==
    /\ p_obs # <<>>
    /\ p_prompt = <<>>
    /\ p_prompt' = <<BuildCyclePrompt(p_obs[1], ChoosePrompt(p_in[1].prefix), p_in[1].cycle)>>
    /\ UNCHANGED <<p_in, p_obs, loop_vars, observer_vars, client_vars, tool_vars>>

PureNext ==
    \/ PGather
    \/ PBuild

PureSpec == PureInit /\ [][PureNext]_vars

\* ------------------------------------------------------ ClawFoundryObserver
\* Tool names carried by ToolCallStart: some the match lists, one it does not.
ToolNames == {"check_kill_switch", "execute_swap", "unlisted_tool"}

\* The events record_event is called with.
ObserverEvents ==
    { Event(k, "", TRUE) : k \in {"AgentStart", "LlmRequest", "TurnComplete",
                                  "HeartbeatTick", "Error", "ChannelMessage", "AgentEnd"} }
    \cup { Event(k, "", ok) : k \in {"LlmResponse", "ToolCall"}, ok \in BOOLEAN }
    \cup { Event("ToolCallStart", tool, TRUE) : tool \in ToolNames }
\* The metrics record_metric is called with: TokensUsed and any other.
ObserverMetrics == { Event("TokensUsed", "", TRUE), Event("OtherMetric", "", TRUE) }

\* Variant: a tool the match does not list leaves a neutral mood.
ToolMood_DefaultNeutral(tool) ==
    CASE tool \in {"check_balance", "check_kill_switch"} -> "cautious"
      [] tool = "execute_swap" -> "focused"
      [] tool = "analyze_token" -> "curious"
      [] tool \in {"memory_store", "memory_recall", "memory_forget"} -> "reflective"
      [] tool \in {"browser", "browser_open", "http_request"} -> "curious"
      [] tool = "schedule" -> "planning"
      [] tool = "request_tool" -> "hopeful"
      [] tool = "platform_feedback" -> "communicative"
      [] tool = "shell" -> "focused"
      [] OTHER -> "neutral"

\* The mood of the (mood, action) match on the tool name.
ToolMood(tool) ==
    CASE tool \in {"check_balance", "check_kill_switch"} -> "cautious"
      [] tool = "execute_swap" -> "focused"
      [] tool = "analyze_token" -> "curious"
      [] tool \in {"memory_store", "memory_recall", "memory_forget"} -> "reflective"
      [] tool \in {"browser", "browser_open", "http_request"} -> "curious"
      [] tool = "schedule" -> "planning"
      [] tool = "request_tool" -> "hopeful"
      [] tool = "platform_feedback" -> "communicative"
      [] tool = "shell" -> "focused"
      [] OTHER -> "focused"

\* The action of the (mood, action) match on the tool name.
ToolAction(tool) ==
    CASE tool \in {"check_balance", "check_kill_switch"} -> "monitor"
      [] tool = "execute_swap" -> "swap"
      [] tool = "analyze_token" -> "research"
      [] tool \in {"memory_store", "memory_recall", "memory_forget"} -> "remember"
      [] tool \in {"browser", "browser_open", "http_request"} -> "research"
      [] tool = "schedule" -> "schedule"
      [] tool = "request_tool" -> "request"
      [] tool = "platform_feedback" -> "feedback"
      [] tool = "shell" -> "execute"
      [] OTHER -> "tool"

\* Variant: a successful LlmResponse calms the mood down to neutral.
EventMood_SuccessCalms(e) ==
    CASE e.kind = "AgentStart" -> <<"neutral">>
      [] e.kind = "LlmRequest" -> <<"thinking">>
      [] e.kind = "LlmResponse" -> IF e.success THEN <<"neutral">> ELSE <<"anxious">>
      [] e.kind = "ToolCallStart" -> <<ToolMood(e.tool)>>
      [] e.kind = "ToolCall" -> IF e.success THEN <<>> ELSE <<"anxious">>
      [] e.kind = "TurnComplete" -> <<"neutral">>
      [] e.kind = "HeartbeatTick" -> <<>>
      [] e.kind = "Error" -> <<"anxious">>
      [] e.kind = "ChannelMessage" -> <<>>
      [] e.kind = "AgentEnd" -> <<"neutral">>
      [] OTHER -> <<>>

\* The set_mood call of an arm of record_event / record_metric: Some(mood),
\* or None for an arm that does not call set_mood.
EventMood(e) ==
    CASE e.kind = "AgentStart" -> <<"neutral">>
      [] e.kind = "LlmRequest" -> <<"thinking">>
      [] e.kind = "LlmResponse" -> IF e.success THEN <<>> ELSE <<"anxious">>
      [] e.kind = "ToolCallStart" -> <<ToolMood(e.tool)>>
      [] e.kind = "ToolCall" -> IF e.success THEN <<>> ELSE <<"anxious">>
      [] e.kind = "TurnComplete" -> <<"neutral">>
      [] e.kind = "HeartbeatTick" -> <<>>
      [] e.kind = "Error" -> <<"anxious">>
      [] e.kind = "ChannelMessage" -> <<>>
      [] e.kind = "AgentEnd" -> <<"neutral">>
      [] OTHER -> <<>>

\* The emit call of an arm: Some(action), or None for an arm that prints
\* nothing (a metric other than TokensUsed).
EventAction(e) ==
    CASE e.kind = "AgentStart" -> <<"boot">>
      [] e.kind = "LlmRequest" -> <<"think">>
      [] e.kind = "LlmResponse" -> IF e.success THEN <<"think">> ELSE <<"error">>
      [] e.kind = "ToolCallStart" -> <<ToolAction(e.tool)>>
      [] e.kind = "ToolCall" -> IF e.success THEN <<"tool">> ELSE <<"error">>
      [] e.kind = "TurnComplete" -> <<"idle">>
      [] e.kind = "HeartbeatTick" -> <<"idle">>
      [] e.kind = "Error" -> <<"error">>
      [] e.kind = "ChannelMessage" -> <<"communicate">>
      [] e.kind = "AgentEnd" -> <<"shutdown">>
      [] e.kind = "TokensUsed" -> <<"metric">>
      [] OTHER -> <<>>

\* Where a call goes first: set_mood if the arm has one, else emit if it has
\* one, else it returns.
FirstStep(e) ==
    IF EventMood(e) # <<>> THEN "set_mood"
    ELSE IF EventAction(e) # <<>> THEN "emit"
    ELSE "return"

Call(at, e) == [at |-> at, event |-> e]
ObserverBusy == obs_calls # EmptyBag

\* A thread that is not in a call enters record_event(e) or record_metric(e).
ObsCall(e) ==
    /\ BagCardinality(obs_calls) < NumThreads
    /\ obs_calls' = IF FirstStep(e) = "return" THEN obs_calls
                    ELSE obs_calls (+) SetToBag({Call(FirstStep(e), e)})
    /\ overlapped' = (overlapped \/ ObserverBusy)
    /\ last_setter' = IF overlapped' THEN <<>>
                      ELSE IF EventMood(e) # <<>> THEN <<e>>
                      ELSE last_setter
    /\ UNCHANGED <<mood, last_line, loop_vars, pure_vars, client_vars, tool_vars>>

RecordEvent == \E e \in ObserverEvents : ObsCall(e)
RecordMetric == \E e \in ObserverMetrics : ObsCall(e)

\* set_mood: the lock taken, the String replaced, the lock released.  No
\* call panics while holding the lock, so the lock is never poisoned.
SetMood ==
    \E c \in BagToSet(obs_calls) :
        /\ c.at = "set_mood"
        /\ mood' = EventMood(c.event)[1]
        /\ obs_calls' = (obs_calls (-) SetToBag({c})) (+) SetToBag({Call("emit", c.event)})
        /\ UNCHANGED <<last_setter, overlapped, last_line, loop_vars, pure_vars, client_vars, tool_vars>>

\* emit: the lock taken, the line printed with the mood read, the lock
\* released; the call returns.
Emit ==
    \E c \in BagToSet(obs_calls) :
        /\ c.at = "emit"
        /\ last_line' = <<[mood |-> mood, action |-> EventAction(c.event)[1]]>>
        /\ obs_calls' = obs_calls (-) SetToBag({c})
        /\ UNCHANGED <<mood, last_setter, overlapped, loop_vars, pure_vars, client_vars, tool_vars>>

ObserverNext ==
    \/ RecordEvent
    \/ RecordMetric
    \/ SetMood
    \/ Emit

ObserverSpecInit ==
    /\ LoopFrozen /\ PureIdle /\ ClientInit /\ ToolIdle
    /\ ObserverInit

ObserverSpec == ObserverSpecInit /\ [][ObserverNext]_vars

\* ------------------------------------------------------------- http_client
ClientFns == {"shared_client", "shared_no_redirect_client"}

\* The static each function calls get_or_init on.
CellOf(fn) ==
    IF fn = "shared_client" THEN "SHARED_CLIENT" ELSE "SHARED_NO_REDIRECT_CLIENT"

\* Variant: both functions use the default static.
CellOf_OneStatic(fn) == "SHARED_CLIENT"

\* What the closure does: builder.build() succeeds, or fails and
\* reqwest::Client::new() stands in, or that panics too.
BuildOutcomes == {"built", "fallback", "panic"}

\* Variant: a caller that finds the closure running runs it as well.
GetOrInitEnter_Racy(state) ==
    IF state = "done" THEN "get" ELSE "init"

\* OnceLock::get_or_init on entry: the value if there is one, else run the
\* closure if nobody does, else block until the running closure is over.
GetOrInitEnter(state) ==
    CASE state = "done" -> "get"
      [] state = "uninit" -> "init"
      [] OTHER -> "wait"

\* The &'static Client a call returns: the static it points into and the
\* build that made the value there; via records how the call came by it.
ClientRef(fn, via) ==
    [fn |-> fn, cell |-> CellOf(fn), gen |-> cell[CellOf(fn)].gen, via |-> via]

\* A thread calls shared_client() or shared_no_redirect_client().
ClientCall(t, fn) ==
    LET c == CellOf(fn)
        enter == GetOrInitEnter(cell[c].state)
    IN  /\ cli_pc[t].at = "idle"
        /\ cli_pc[t].made < MaxCalls
        /\ IF enter = "get"
           THEN /\ cli_got' = [cli_got EXCEPT ![t] = Append(@, ClientRef(fn, "get"))]
                /\ cli_pc' = [cli_pc EXCEPT ![t].made = @ + 1]
                /\ UNCHANGED cell
           ELSE /\ cli_pc' = [cli_pc EXCEPT ![t] = [at |-> enter, fn |-> fn, made |-> @.made + 1]]
                /\ cell' = IF enter = "init" THEN [cell EXCEPT ![c].state = "running"] ELSE cell
                /\ UNCHANGED cli_got
        /\ UNCHANGED <<builds, loop_vars, pure_vars, observer_vars, tool_vars>>

SharedClient == \E t \in Threads : ClientCall(t, "shared_client")
SharedNoRedirectClient == \E t \in Threads : ClientCall(t, "shared_no_redirect_client")

\* The closure ends.  With a client, the value is stored and the call returns
\* a reference to it; with a panic the static stays uninitialized and the
\* call returns nothing.
ClientBuild ==
    \E t \in Threads, outcome \in BuildOutcomes :
        LET fn == cli_pc[t].fn
            c == CellOf(fn)
        IN  /\ cli_pc[t].at = "init"
            /\ cli_pc' = [cli_pc EXCEPT ![t] = [at |-> "idle", fn |-> "", made |-> @.made]]
            /\ IF outcome = "panic"
               THEN /\ cell' = [cell EXCEPT ![c].state = IF @ = "done" THEN "done" ELSE "uninit"]
                    /\ UNCHANGED <<builds, cli_got>>
               ELSE /\ builds' = [builds EXCEPT ![c] = @ + 1]
                    /\ cell' = [cell EXCEPT ![c] =
                                   [state |-> "done", gen |-> builds'[c], kind |-> outcome]]
                    /\ cli_got' = [cli_got EXCEPT ![t] =
                                      Append(@, [fn |-> fn, cell |-> c,
                                                 gen |-> builds'[c], via |-> "init"])]
            /\ UNCHANGED <<loop_vars, pure_vars, observer_vars, tool_vars>>

\* A blocked caller goes on once no closure runs: it returns the value stored,
\* or runs the closure itself if the one it waited for panicked.
ClientWake ==
    \E t \in Threads :
        LET fn == cli_pc[t].fn
            c == CellOf(fn)
        IN  /\ cli_pc[t].at = "wait"
            /\ cell[c].state # "running"
            /\ IF cell[c].state = "done"
               THEN /\ cli_got' = [cli_got EXCEPT ![t] = Append(@, ClientRef(fn, "wait"))]
                    /\ cli_pc' = [cli_pc EXCEPT ![t] = [at |-> "idle", fn |-> "", made |-> @.made]]
                    /\ UNCHANGED cell
               ELSE /\ cli_pc' = [cli_pc EXCEPT ![t].at = "init"]
                    /\ cell' = [cell EXCEPT ![c].state = "running"]
                    /\ UNCHANGED cli_got
            /\ UNCHANGED <<builds, loop_vars, pure_vars, observer_vars, tool_vars>>

ClientNext ==
    \/ SharedClient
    \/ SharedNoRedirectClient
    \/ ClientBuild
    \/ ClientWake

ClientSpecInit ==
    /\ LoopFrozen /\ PureIdle /\ ObserverInit /\ ToolIdle
    /\ ClientInit

ClientSpec == ClientSpecInit /\ [][ClientNext]_vars

\* -------------------------------------------------------- tools/clawfoundry
\* The vec! of clawfoundry_tools, by the name() of each tool.
ToolList ==
    << "check_balance", "check_kill_switch", "check_llm_balance", "analyze_token",
       "execute_swap", "execute_transaction", "fund_llm_balance", "request_tool",
       "platform_feedback", "publish_thought", "review_intel", "make_announcement",
       "list_models", "change_model", "browser_read", "browser_screenshot" >>

\* clawfoundry_tools: nothing without a config, else every tool.
ClawfoundryTools(e) == IF FromEnv(e) = <<>> THEN <<>> ELSE ToolList

\* Environments of the process: each variable unset, empty, set, or not
\* Unicode; the URL also with a trailing slash.
ToolEnvs ==
    [url : EnvVar("http://127.0.0.1:4000")
               \cup {[set |-> TRUE, utf8 |-> TRUE, val |-> "http://127.0.0.1:4000/"]},
     token : EnvVar("0x1234"),
     secret : EnvVar("s3cret")]

\* A response body: not JSON at all, or a JSON object with the members the
\* readers look at (a missing member is Null).
Body(success, error, data) ==
    [valid |-> TRUE, success |-> success, error |-> error, data |-> data]
NotJson(data) == [valid |-> FALSE, success |-> JNull, error |-> JNull, data |-> data]

\* The `data` of a check_kill_switch response with the members either reader
\* looks at: those gather_observations reads (ks) and those
\* CheckKillSwitchTool::execute reads.
KsFull(ks, dead, exec, cd, needed, last_mcap, last_update) ==
    [present |-> ks.present, dangerLevel |-> ks.dangerLevel,
     isCountdownActive |-> ks.isCountdownActive,
     belowThresholdConfirmations |-> ks.belowThresholdConfirmations,
     requiredConfirmations |-> ks.requiredConfirmations,
     killThreshold |-> ks.killThreshold,
     currentMarketCap |-> ks.currentMarketCap,
     isDead |-> dead, isExecutable |-> exec, countdownActive |-> cd,
     confirmationsNeeded |-> needed, lastMarketCap |-> last_mcap,
     lastPriceUpdate |-> last_update]
KsFullNull == KsFull(KsNull, JNull, JNull, JNull, JNull, JNull, JNull)

\* Payloads of check_kill_switch: with the member names of one reader, of
\* the other, of both; a level outside the four tiers; no level; no data.
KsToolDatas ==
    { KsFull(KsObj(JStr("critical"), JBool(TRUE), JNum(2), JNum(5), JStr("$30000"), JStr("$25000")),
             JNull, JNull, JNull, JNull, JNull, JNull),
      KsFull(KsObj(JStr("warning"), JNull, JNum(1), JNull, JStr("$30000"), JNull),
             JBool(FALSE), JBool(FALSE), JBool(TRUE), JNum(5), JStr("$31000"), JNum(1700000000)),
      KsFull(KsObj(JStr("safe"), JBool(FALSE), JNum(0), JNum(3), JStr("$30000"), JStr("$245000")),
             JBool(FALSE), JBool(FALSE), JBool(FALSE), JNum(3), JStr("$245000"), JNum(1700000000)),
      KsFull(KsObj(JStr("extreme"), JBool(FALSE), JNum(0), JNum(3), JStr("$30000"), JStr("$245000")),
             JBool(FALSE), JBool(FALSE), JBool(FALSE), JNum(3), JStr("$245000"), JNum(1700000000)),
      KsFull(KsObj(JNull, JBool(FALSE), JNum(0), JNum(3), JStr("$30000"), JStr("$245000")),
             JBool(FALSE), JBool(FALSE), JBool(FALSE), JNum(3), JStr("$245000"), JNum(1700000000)),
      KsFullNull }

\* The `data` of an execute_swap response.
SwapData(present, amount, status) ==
    [present |-> present, sellAmount |-> amount, sellToken |-> JStr("ETH"),
     buyToken |-> JStr("TEST"), buyAmount |-> JStr("1000"), routed |-> present,
     txHash |-> IF present THEN JStr("0xabc") ELSE JNull, status |-> status]
SwapDatas ==
    { SwapData(TRUE, JStr("0.1"), JStr("confirmed")),
      SwapData(FALSE, JNull, JNull) }

\* Bodies a response can carry.
Bodies(datas) ==
    { Body(sc, er, d) :
          sc \in {JBool(TRUE), JBool(FALSE), JNull, JStr("true")},
          er \in {JNull, JStr("insufficient balance")},
          d \in datas }
    \cup { NotJson(d) : d \in datas }

\* HTTP status codes of a response.
Statuses == {200, 201, 404, 500}

\* What happens to a request: not delivered or not answered in time, or
\* answered with a status and a body.
Exchange(delivered, status, body) ==
    [delivered |-> delivered, status |-> status, body |-> body]
Exchanges(datas) ==
    { Exchange(TRUE, st, b) : st \in Statuses, b \in Bodies(datas) }
    \cup { Exchange(FALSE, 0, NotJson(d)) : d \in datas }

\* StatusCode::is_success
IsSuccess(status) == status >= 200 /\ status < 300

\* anyhow::Result of call_orchestrator; the error as the parts of its text.
CallOk(body) == [ok |-> TRUE, body |-> body, err |-> <<>>]
CallErr(body, parts) == [ok |-> FALSE, body |-> body, err |-> parts]

\* Variant: the status not examined.
CallOrchestrator_IgnoreStatus(x) ==
    IF ~x.delivered THEN CallErr(x.body, <<"error sending request">>)
    ELSE IF ~x.body.valid THEN CallErr(x.body, <<"error decoding response body">>)
    ELSE CallOk(x.body)

\* call_orchestrator, from the outcome of the exchange: `send().await?`,
\* `response.json().await?`, the bail on a non-2xx status, Ok(body).
CallOrchestrator(x) ==
    IF ~x.delivered THEN CallErr(x.body, <<"error sending request">>)
    ELSE IF ~x.body.valid THEN CallErr(x.body, <<"error decoding response body">>)
    ELSE IF ~IsSuccess(x.status)
         THEN CallErr(x.body, <<"Orchestrator returned ", x.status, ": ",
                                AsStrOr(x.body.error, "Unknown error")>>)
    ELSE CallOk(x.body)

\* The request of call_orchestrator: the URL as (base, tool), the headers
\* (X-Agent-Secret only for a non-empty secret), the JSON body.
Request(cfg, tool_name, body) ==
    [url |-> <<cfg.orchestrator_url, "/internal/tools/", tool_name>>,
     token |-> cfg.agent_token,
     secret |-> IF cfg.secret # "" THEN <<cfg.secret>> ELSE <<>>,
     body |-> body]

\* Arguments the agent passes to execute_swap.
SwapArgs(sell, buy, amount, slippage) ==
    [sellToken |-> sell, buyToken |-> buy, sellAmount |-> amount, maxSlippageBps |-> slippage]
SwapArgsSet ==
    { SwapArgs(a, b, c, JNull) :
          a \in {JStr("ETH"), JNull, JNum(1)},
          b \in {JStr("TEST"), JNull},
          c \in {JStr("0.1"), JNull, JNum(1)} }
    \cup { SwapArgs(JStr("ETH"), JStr("TEST"), JStr("0.1"), sl) : sl \in {JNum(100), JStr("100")} }
NoArgs == SwapArgs(JNull, JNull, JNull, JNull)

\* The three `ok_or_else(..)?` of ExecuteSwapTool::execute: Some(message) of
\* the first required argument that is missing or not a string.
SwapArgsError(args) ==
    IF args.sellToken.t # "string" THEN <<"sellToken is required">>
    ELSE IF args.buyToken.t # "string" THEN <<"buyToken is required">>
    ELSE IF args.sellAmount.t # "string" THEN <<"sellAmount is required">>
    ELSE <<>>

\* The body ExecuteSwapTool::execute posts.
SwapBody(args) ==
    [sellToken |-> args.sellToken.s, buyToken |-> args.buyToken.s,
     sellAmount |-> args.sellAmount.s,
     maxSlippageBps |-> IF args.maxSlippageBps.t = "number" /\ args.maxSlippageBps.n >= 0
                        THEN <<args.maxSlippageBps.n>> ELSE <<>>]
EmptyBody ==
    [sellToken |-> "", buyToken |-> "", sellAmount |-> "", maxSlippageBps |-> <<>>]

\* ToolResult and anyhow::Result<ToolResult>.
ToolResult(success, output, error) == [success |-> success, output |-> output, error |-> error]
ExecOk(tr) == [ok |-> TRUE, value |-> <<tr>>, err |-> ""]
ExecErr(msg) == [ok |-> FALSE, value |-> <<>>, err |-> msg]

\* Variant: a response without a boolean `success` taken for a success.
SwapResult_DefaultTrue(ret) ==
    IF ret.ok
    THEN IF AsBoolOr(ret.body.success, TRUE)
         THEN ToolResult(TRUE, <<"Swap executed via 0x", ret.body.data>>, <<>>)
         ELSE ToolResult(FALSE, <<"Swap not executed: ", AsStrOr(ret.body.error, "Swap failed")>>,
                         <<AsStrOr(ret.body.error, "Swap failed")>>)
    ELSE ToolResult(FALSE, <<>>, <<ret.err>>)

\* The match of ExecuteSwapTool::execute on what call_orchestrator returned.
SwapResult(ret) ==
    IF ret.ok
    THEN IF AsBoolOr(ret.body.success, FALSE)
         THEN ToolResult(TRUE, <<"Swap executed via 0x", ret.body.data>>, <<>>)
         ELSE ToolResult(FALSE, <<"Swap not executed: ", AsStrOr(ret.body.error, "Swap failed")>>,
                         <<AsStrOr(ret.body.error, "Swap failed")>>)
    ELSE ToolResult(FALSE, <<>>, <<ret.err>>)

\* The status word of CheckKillSwitchTool::execute for a danger level.
KillSwitchStatus(danger) ==
    IF danger = "safe" THEN "SAFE"
    ELSE IF danger = "warning" THEN "WARNING"
    ELSE IF danger = "critical" THEN "CRITICAL"
    ELSE "DEAD"

\* The arguments of the format! of CheckKillSwitchTool::execute.
KillSwitchReport(data) ==
    [status |-> KillSwitchStatus(AsStrOr(data.dangerLevel, "unknown")),
     danger |-> AsStrOr(data.dangerLevel, "unknown"),
     is_dead |-> AsBoolOr(data.isDead, FALSE),
     is_executable |-> AsBoolOr(data.isExecutable, FALSE),
     countdown_active |-> AsBoolOr(data.countdownActive, FALSE),
     confirmations |-> <<AsU64Or(data.belowThresholdConfirmations, 0), "/",
                         AsU64Or(data.confirmationsNeeded, 3)>>,
     last_market_cap |-> AsStrOr(data.lastMarketCap, "0"),
     kill_threshold |-> AsStrOr(data.killThreshold, "0"),
     last_price_update |-> AsU64Or(data.lastPriceUpdate, 0)]

\* The match of CheckKillSwitchTool::execute on what call_orchestrator returned.
KillSwitchResult(ret) ==
    IF ret.ok
    THEN ToolResult(TRUE, <<KillSwitchReport(ret.body.data)>>, <<>>)
    ELSE ToolResult(FALSE, <<>>, <<ret.err>>)

ToolInit ==
    /\ LoopFrozen /\ PureIdle /\ ObserverInit /\ ClientInit
    /\ t_env \in ToolEnvs
    /\ t_pc = "start"
    /\ t_tools = <<>>
    /\ t_call = <<>>
    /\ t_request = <<>>
    /\ t_ret = <<>>
    /\ t_result = <<>>

ToolFrame == UNCHANGED <<loop_vars, pure_vars, observer_vars, client_vars>>

\* clawfoundry_tools() at start-up.
RegisterTools ==
    /\ t_pc = "start"
    /\ t_tools' = ClawfoundryTools(t_env)
    /\ t_pc' = "registered"
    /\ UNCHANGED <<t_env, t_call, t_request, t_ret, t_result>>
    /\ ToolFrame

Registered(name) == \E i \in 1..Len(t_tools) : t_tools[i] = name

\* ExecuteSwapTool::execute up to the await: Err for a missing argument,
\* else the request is sent.
ExecuteSwap ==
    /\ t_pc = "registered"
    /\ Registered("execute_swap")
    /\ \E args \in SwapArgsSet :
          /\ t_call' = <<[tool |-> "execute_swap", args |-> args]>>
          /\ IF SwapArgsError(args) # <<>>
             THEN /\ t_result' = <<ExecErr(SwapArgsError(args)[1])>>
                  /\ t_pc' = "done"
                  /\ UNCHANGED t_request
             ELSE /\ t_request' = <<Request(FromEnv(t_env)[1], "execute_swap", SwapBody(args))>>
                  /\ t_pc' = "in_call"
                  /\ UNCHANGED t_result
    /\ UNCHANGED <<t_env, t_tools, t_ret>>
    /\ ToolFrame

\* CheckKillSwitchTool::execute up to the await.
CheckKillSwitch ==
    /\ t_pc = "registered"
    /\ Registered("check_kill_switch")
    /\ t_call' = <<[tool |-> "check_kill_switch", args |-> NoArgs]>>
    /\ t_request' = <<Request(FromEnv(t_env)[1], "check_kill_switch", EmptyBody)>>
    /\ t_pc' = "in_call"
    /\ UNCHANGED <<t_env, t_tools, t_ret, t_result>>
    /\ ToolFrame

\* The exchange ends, call_orchestrator returns and execute returns.
ToolReturn ==
    /\ t_pc = "in_call"
    /\ \E x \in IF t_call[1].tool = "execute_swap" THEN Exchanges(SwapDatas)
                ELSE Exchanges(KsToolDatas) :
          /\ t_ret' = <<[exchange |-> x, result |-> CallOrchestrator(x)]>>
          /\ t_result' =
                <<ExecOk(IF t_call[1].tool = "execute_swap"
                         THEN SwapResult(CallOrchestrator(x))
                         ELSE KillSwitchResult(CallOrchestrator(x)))>>
    /\ t_pc' = "done"
    /\ UNCHANGED <<t_env, t_tools, t_call, t_request>>
    /\ ToolFrame

ToolNext ==
    \/ RegisterTools
    \/ ExecuteSwap
    \/ CheckKillSwitch
    \/ ToolReturn

ToolSpec == ToolInit /\ [][ToolNext]_vars

\* ---------------------------------------------------------------- claims
Last(q) == q[Len(q)]
IsErrorCall(call, prefix) ==
    /\ call.op = "mark_component_error"
    /\ call.component = "survival"
    /\ Len(call.reason) = 2
    /\ call.reason[1] = prefix
CycleRunning == pc \in {"observing", "acting"}

\* C1: in a cycle whose gather returned an error, the scheduler calls
\* mark_component_error("survival", "observe failed: ...") right after the
\* cycle-start mark, builds no directive and does not invoke agent::run.
C1_ObserveFailureAbandonsCycle ==
    (gather_returns # <<>> /\ ~Last(gather_returns).ok) =>
        /\ Len(cycle_health) = 2
        /\ IsErrorCall(cycle_health[2], "observe failed: ")
        /\ cycle_health[2].reason[2] = Last(gather_returns).err
        /\ built = <<>>
        /\ agent_call = <<>>
        /\ act_returns = <<>>
        /\ pc # "acting"
        /\ \A i \in 1..Len(directive_cycles) : directive_cycles[i] # ticks
C1_Witness ==
    /\ pc = "tick_wait"
    /\ gather_returns # <<>> /\ ~Last(gather_returns).ok
    /\ ~ks_result[1].ok /\ bal_result[1].ok

\* C2: after N consecutive cycles whose Acting phase failed, at least N
\* mark_component_error calls have been made, and (the timer being fair)
\* the next tick fires and starts cycle N+1 or later.
C2_LoopSurvivesActFailures ==
    /\ [](error_marks >= act_fail_streak)
    /\ \A n \in 1..(MaxCycles - 1) :
          (act_fail_streak = n /\ in_progress = {} /\ ticks < MaxCycles)
              ~> (pc = "observing" /\ ticks > n)
C2_Witness ==
    /\ act_fail_streak = MaxCycles - 1
    /\ error_marks >= MaxCycles - 1
    /\ pc = "observing"
    /\ ticks = MaxCycles

C4_Orig_TickDuringActing ==
    (pc = "acting" /\ ticker.due <= 0 /\ cycle_count < MaxCycles) => ENABLED Tick
\* C4 (amended): cycles are serialized; at most one cycle is in progress, a
\* due tick is not taken while the cycle runs and fires only once it ended.
C4_CyclesSerialized ==
    /\ Cardinality(in_progress) <= 1
    /\ CycleRunning => (in_progress = {ticks} /\ ~ENABLED Tick)
    /\ ~CycleRunning => in_progress = {}
C4_Witness ==
    /\ pc = "acting"
    /\ ticker.due <= -ticker.period
    /\ in_progress = {ticks}
    /\ ticks < MaxCycles

\* C5 (as stated): ticks missed during a long cycle are dropped, so whenever
\* a tick fires the next one is still in the future.
C5_Orig_MissedTicksDropped ==
    [][(ticks' = ticks + 1) => ticker'.due > 0]_vars

\* C6: per cycle the health calls are mark_component_ok at the start, then
\* exactly one of: mark_component_ok (Acting succeeded), the error "observe
\* failed: ..." (gather failed), the error "think/act failed: ..." (Acting
\* failed); there is no other health call.
C6_HealthCallsPerCycle ==
    /\ health_calls = 2 * ticks - (IF CycleRunning THEN 1 ELSE 0)
    /\ \A i \in 1..Len(cycle_health) : cycle_health[i].component = "survival"
    /\ CycleRunning => cycle_health = <<HealthOk>>
    /\ (pc = "tick_wait" /\ ticks > 0) =>
          /\ Len(cycle_health) = 2
          /\ cycle_health[1] = HealthOk
          /\ Len(gather_returns) = 1
          /\ IF ~gather_returns[1].ok
             THEN IsErrorCall(cycle_health[2], "observe failed: ") /\ act_returns = <<>>
             ELSE /\ Len(act_returns) = 1
                  /\ IF act_returns[1].ok
                     THEN cycle_health[2] = HealthOk
                     ELSE IsErrorCall(cycle_health[2], "think/act failed: ")
    /\ ticks = 0 => cycle_health = <<>>
C6_Witness ==
    /\ pc = "tick_wait"
    /\ ticks >= 2
    /\ act_returns # <<>> /\ ~act_returns[1].ok
    /\ Len(cycle_health) = 2

\* C7: the counter starts at 0, grows by exactly 1 at each tick and nowhere
\* else, whatever the outcome of the cycles; the directive of the n-th tick
\* carries n, and no two directives carry the same number.
C7_CycleCounter ==
    /\ [](cycle_count = ticks)
    /\ [](pc = "acting" => (Len(built) = 1 /\ built[1].cycle = ticks
                             /\ Last(directive_cycles) = ticks))
    /\ [](\A i, j \in 1..Len(directive_cycles) :
             i < j => directive_cycles[i] < directive_cycles[j])
    /\ [][cycle_count' # cycle_count =>
             (cycle_count' = cycle_count + 1 /\ ticks' = ticks + 1)]_vars
C7_Witness ==
    /\ ticks = 3
    /\ cycle_count = 3
    /\ directive_cycles = <<1, 3>>
    /\ pc = "tick_wait"
    /\ ~act_returns[1].ok

\* C8: gather_observations returns Ok exactly when both invocations returned
\* Ok, and an Observations value exists exactly then.
C8_GatherOkIffBothOk ==
    gather_returns # <<>> =>
        /\ ks_result # <<>> /\ bal_result # <<>>
        /\ Last(gather_returns).ok <=> (ks_result[1].ok /\ bal_result[1].ok)
        /\ Last(gather_returns).ok <=> (Len(Last(gather_returns).obs) = 1)
        /\ Len(built) <= Len(Last(gather_returns).obs)
C8_Witness ==
    /\ gather_returns # <<>>
    /\ ~Last(gather_returns).ok
    /\ ks_result[1].ok /\ ~bal_result[1].ok

\* C9: each gather issues exactly the two invocations, both before either
\* result is looked at, and returns only when both have completed, also when
\* the one that completed first failed.
C9_JoinAwaitsBoth ==
    /\ ticks > 0 => invocations = <<"check_kill_switch", "check_balance">>
    /\ gather_returns # <<>> => (ks_result # <<>> /\ bal_result # <<>>)
    /\ (ks_result = <<>> \/ bal_result = <<>>) => (ticks = 0 \/ pc = "observing")
C9_Witness ==
    /\ pc = "observing"
    /\ Len(invocations) = 2
    /\ bal_result # <<>> /\ ~bal_result[1].ok
    /\ ks_result = <<>>
    /\ gather_returns = <<>>

\* C10: the timer is armed with max(interval_secs, 30), computed once before
\* the first tick and never changed.
C10_IntervalClamp ==
    /\ [](ticker.armed =>
            /\ interval = (IF config.interval_secs < 30 THEN 30 ELSE config.interval_secs)
            /\ ticker.period = interval)
    /\ [][(interval' # interval \/ ticker'.period # ticker.period) =>
             (pc = "start" /\ ticks = 0)]_vars
    /\ [][config' = config]_vars
C10_Witness ==
    /\ config.interval_secs = 0
    /\ ticker.armed
    /\ ticker.period = 30
    /\ ticks >= 2

\* C11 (as stated): the danger_level of every snapshot is one of safe,
\* warning, critical, dead, unknown.
C11_Orig_DangerLevelInTiers ==
    p_obs # <<>> =>
        p_obs[1].danger_level \in {"safe", "warning", "critical", "dead", "unknown"}
\* C11 (amended): a missing or non-string dangerLevel is stored as
\* "unknown"; a string is stored as it is, whether or not it is a known tier.
C11_DangerLevelStringVerbatim ==
    p_obs # <<>> =>
        LET dl == p_in[1].ks.dangerLevel IN
        /\ dl.t \in {"null", "number", "bool"} => p_obs[1].danger_level = "unknown"
        /\ \A x \in {"safe", "warning", "critical", "dead", "unknown", "extreme"} :
              dl = JStr(x) => p_obs[1].danger_level = x
C11_Witness ==
    /\ p_obs # <<>>
    /\ p_in[1].ks.dangerLevel = JStr("extreme")
    /\ p_obs[1].danger_level = "extreme"

\* C12: the directive carries the banner of the danger level: critical,
\* warning and dead each their own, safe and every other value the SAFE
\* banner; no field of the directive carries another tier's banner.
C12_Banners ==
    {"CRITICAL - You are about to die. Take immediate survival action.",
     "WARNING - Your market cap is approaching the kill threshold. Be proactive.",
     "DEAD - Your kill switch has been executed. No further action possible.",
     "SAFE - No immediate danger. Focus on growth and strategy."}
C12_TextFields(d) ==
    {d.survival_prompt, d.urgency, d.threshold, d.mcap, d.countdown_note,
     d.eth, d.symbol, d.token}
C12_BannerPerTier ==
    p_prompt # <<>> =>
        LET dl == p_obs[1].danger_level
            d == p_prompt[1]
            banner == IF dl = "critical"
                         THEN "CRITICAL - You are about to die. Take immediate survival action."
                      ELSE IF dl = "warning"
                         THEN "WARNING - Your market cap is approaching the kill threshold. Be proactive."
                      ELSE IF dl = "dead"
                         THEN "DEAD - Your kill switch has been executed. No further action possible."
                      ELSE "SAFE - No immediate danger. Focus on growth and strategy."
        IN  /\ d.urgency = banner
            /\ C12_TextFields(d) \cap C12_Banners = {banner}
C12_Witness ==
    /\ p_prompt # <<>>
    /\ p_obs[1].danger_level = "unknown"
    /\ p_prompt[1].urgency = "SAFE - No immediate danger. Focus on growth and strategy."

\* C13: the directive carries the countdown clause exactly when
\* is_countdown_active is true, and the empty string in its place
\* otherwise, whatever the danger level.
C13_CountdownClause ==
    p_prompt # <<>> =>
        /\ p_obs[1].is_countdown_active =>
              p_prompt[1].countdown_note =
                  "DEATH COUNTDOWN IS ACTIVE. You are below kill threshold. Every cycle matters."
        /\ ~p_obs[1].is_countdown_active => p_prompt[1].countdown_note = ""
C13_Witness ==
    /\ p_prompt # <<>>
    /\ p_obs[1].danger_level = "critical"
    /\ ~p_obs[1].is_countdown_active
    /\ p_prompt[1].countdown_note = ""

\* C14: the directive carries the cycle number supplied, the configured
\* prefix (the default text when the configured prefix is empty) and the two
\* raw JSON blocks of the snapshot.
C14_DirectiveEmbeds ==
    p_prompt # <<>> =>
        /\ p_prompt[1].cycle = p_in[1].cycle
        /\ p_in[1].prefix # "" => p_prompt[1].survival_prompt = p_in[1].prefix
        /\ p_in[1].prefix = "" =>
              p_prompt[1].survival_prompt =
                  "You are fighting for your survival in the ClawFoundry arena. Every decision matters. Your token holders are counting on you."
        /\ p_prompt[1].ks_raw = p_obs[1].kill_switch_raw
        /\ p_prompt[1].bal_raw = p_obs[1].balance_raw
        /\ p_obs[1].kill_switch_raw = p_in[1].ks
        /\ p_obs[1].balance_raw = p_in[1].bal
C14_Witness ==
    /\ p_prompt # <<>>
    /\ p_in[1].prefix = ""
    /\ p_in[1].cycle = 42
    /\ p_prompt[1].cycle = 42

\* A field is missing or of the wrong type.
C15_NotText(v) == v.t # "string"
C15_NotU64(v) == ~(v.t = "number" /\ v.n >= 0)
C15_NotBool(v) == v.t # "bool"
\* C15 (as stated): a missing or wrong-typed field falls back to "unknown"
\* (text), 0 (number) or false (boolean).
C15_Orig_ThreeSentinels ==
    p_obs # <<>> =>
        LET k == p_in[1].ks
            b == p_in[1].bal
            o == p_obs[1]
        IN  /\ C15_NotText(k.dangerLevel) => o.danger_level = "unknown"
            /\ C15_NotText(k.killThreshold) => o.kill_threshold = "unknown"
            /\ C15_NotText(k.currentMarketCap) => o.market_cap = "unknown"
            /\ C15_NotText(b.ethBalance) => o.eth_balance = "unknown"
            /\ C15_NotText(b.tokenBalance) => o.token_balance = "unknown"
            /\ C15_NotText(b.tokenSymbol) => o.token_symbol = "unknown"
            /\ C15_NotU64(k.belowThresholdConfirmations) => o.confirmations[1] = 0
            /\ C15_NotU64(k.requiredConfirmations) => o.confirmations[3] = 0
            /\ C15_NotBool(k.isCountdownActive) => o.is_countdown_active = FALSE
\* C15 (amended): each field has its own fallback: "unknown" for the danger
\* level, the threshold and the market cap, "0" for the two balances, "???"
\* for the symbol, 0 for the confirmations seen, 3 for the confirmations
\* required, false for the countdown flag.
C15_PerFieldFallbacks ==
    p_obs # <<>> =>
        LET k == p_in[1].ks
            b == p_in[1].bal
            o == p_obs[1]
        IN  /\ C15_NotText(k.dangerLevel) => o.danger_level = "unknown"
            /\ C15_NotText(k.killThreshold) => o.kill_threshold = "unknown"
            /\ C15_NotText(k.currentMarketCap) => o.market_cap = "unknown"
            /\ C15_NotText(b.ethBalance) => o.eth_balance = "0"
            /\ C15_NotText(b.tokenBalance) => o.token_balance = "0"
            /\ C15_NotText(b.tokenSymbol) => o.token_symbol = "???"
            /\ C15_NotU64(k.belowThresholdConfirmations) => o.confirmations[1] = 0
            /\ C15_NotU64(k.requiredConfirmations) => o.confirmations[3] = 3
            /\ C15_NotBool(k.isCountdownActive) => o.is_countdown_active = FALSE
C15_Witness ==
    /\ p_obs # <<>>
    /\ p_in[1].ks = KsNull
    /\ p_in[1].bal = BalNull
    /\ p_obs[1].confirmations = <<0, "/", 3>>
    /\ p_obs[1].token_symbol = "???"

\* C16: when both invocations returned Ok, gather returns Ok whatever the
\* two payloads hold, the observe phase reports no error, and the cycle
\* builds its directive and invokes agent::run.
C16_MalformedTelemetryProceeds ==
    (gather_returns # <<>> /\ ks_result[1].ok /\ bal_result[1].ok) =>
        /\ Last(gather_returns).ok
        /\ Len(built) = 1
        /\ directive_cycles # <<>> /\ Last(directive_cycles) = ticks
        /\ pc = "acting" \/ Len(act_returns) = 1
        /\ \A i \in 1..Len(cycle_health) : ~IsErrorCall(cycle_health[i], "observe failed: ")
C16_Witness ==
    /\ pc = "acting"
    /\ ks_result[1].ok /\ ks_result[1].body.present
    /\ ks_result[1].body.dangerLevel.t = "number"
    /\ bal_result[1].ok /\ ~bal_result[1].body.present
    /\ agent_call # <<>>

\* C17: within one cycle gather_observations returns at most once and
\* agent::run is called and returns at most once; after a failure nothing
\* is tried again before the next tick.
C17_NoRetryWithinCycle ==
    /\ Len(gather_returns) <= 1
    /\ Len(invocations) <= 2
    /\ Len(built) <= 1
    /\ Len(act_returns) <= 1
    /\ Cardinality({i \in 1..Len(directive_cycles) : directive_cycles[i] = ticks}) <= 1
    /\ Len(directive_cycles) <= ticks
C17_Witness ==
    /\ pc = "tick_wait"
    /\ ticker.due > 0
    /\ ticks = 2
    /\ Len(gather_returns) = 1 /\ Last(gather_returns).ok
    /\ Len(act_returns) = 1 /\ ~act_returns[1].ok
    /\ Len(directive_cycles) = 1

\* C18: agent::run is in flight exactly in the Acting phase, and its message
\* is Some(directive), the directive built in this cycle from this cycle's
\* counter and from the snapshot made of this cycle's two responses.
C18_AgentGetsThisCyclesDirective ==
    /\ agent_call # <<>> <=> pc = "acting"
    /\ pc = "acting" =>
          /\ Len(agent_call[1].message) = 1
          /\ Len(built) = 1 /\ Len(gather_returns) = 1
          /\ LET d == agent_call[1].message[1]
                 o == gather_returns[1].obs[1]
             IN  /\ d = built[1]
                 /\ d.cycle = ticks
                 /\ d = BuildCyclePrompt(o, survival_prompt, ticks)
                 /\ o.kill_switch_raw = ks_result[1].body
                 /\ o.balance_raw = bal_result[1].body
                 /\ d.ks_raw = ks_result[1].body
                 /\ d.bal_raw = bal_result[1].body
C18_Witness ==
    /\ pc = "acting"
    /\ ticks = 3
    /\ directive_cycles = <<1, 2, 3>>
    /\ agent_call[1].message[1].cycle = 3

\* The mood the most recent mood-setting event of a sequence assigns: neutral
\* for AgentStart, TurnComplete and AgentEnd, thinking for LlmRequest, anxious
\* for a failed LlmResponse, a failed ToolCall and Error, and for ToolCallStart
\* the mood of the tool (check_kill_switch: cautious; execute_swap and a tool
\* the observer does not know: focused).
C19_AssignedMood(e) ==
    CASE e.kind \in {"AgentStart", "TurnComplete", "AgentEnd"} -> "neutral"
      [] e.kind = "LlmRequest" -> "thinking"
      [] e.kind \in {"LlmResponse", "ToolCall"} /\ ~e.success -> "anxious"
      [] e.kind = "Error" -> "anxious"
      [] e.kind = "ToolCallStart" /\ e.tool = "check_kill_switch" -> "cautious"
      [] e.kind = "ToolCallStart" /\ e.tool = "execute_swap" -> "focused"
      [] e.kind = "ToolCallStart" /\ e.tool = "unlisted_tool" -> "focused"
      [] OTHER -> "undefined"

C20_Returned == UNION { { cli_got[t][i] : i \in 1..Len(cli_got[t]) } : t \in Threads }

\* C20: each static's client is built at most once; all references returned
\* by one function are to the same instance, whichever thread asked and
\* whether it built the client, waited for the build or found it there; and
\* the two functions return different instances.
C20_OneInstancePerFunction ==
    /\ \A c \in Cells : builds[c] <= 1
    /\ \A r1, r2 \in C20_Returned :
          /\ r1.fn = r2.fn => (r1.cell = r2.cell /\ r1.gen = r2.gen)
          /\ r1.fn # r2.fn => r1.cell # r2.cell
C20_Witness ==
    \E t, u \in Threads :
        /\ t # u
        /\ Len(cli_got[t]) = 2 /\ Len(cli_got[u]) = 2
        /\ cli_got[t][1].fn = "shared_client" /\ cli_got[t][1].via = "init"
        /\ cli_got[u][1].fn = "shared_client" /\ cli_got[u][1].via = "wait"
        /\ cli_got[t][2].fn = "shared_no_redirect_client"
        /\ cli_got[u][2].fn = "shared_client" /\ cli_got[u][2].via = "get"

\* Neither variable is unset or empty (as the claim puts "configured").
C21_SetAndNonEmpty(e) ==
    /\ e.url.set /\ e.url.val # ""
    /\ e.token.set /\ e.token.val # ""

\* C21 (as stated): from_env is None, and the tool list empty, exactly when
\* the URL or the token is unset or empty.
C21_Orig_NoneIffUnsetOrEmpty ==
    /\ FromEnv(t_env) = <<>> <=> ~C21_SetAndNonEmpty(t_env)
    /\ t_pc # "start" => (t_tools = <<>> <=> ~C21_SetAndNonEmpty(t_env))

\* C21 (amended): from_env is None exactly when the URL or the token is
\* unset, not valid Unicode or empty, whatever the secret; clawfoundry_tools
\* returns no tool in exactly those cases and 16 tools otherwise.
C21_NoneIffUnreadableOrEmpty ==
    LET unreadable(x) == ~x.set \/ ~x.utf8 \/ x.val = ""
        none == unreadable(t_env.url) \/ unreadable(t_env.token)
    IN  /\ FromEnv(t_env) = <<>> <=> none
        /\ t_pc # "start" =>
              /\ none => t_tools = <<>>
              /\ ~none => Len(t_tools) = 16
                          /\ Cardinality({t_tools[i] : i \in 1..Len(t_tools)}) = 16
C21_Witness ==
    /\ t_pc = "registered"
    /\ Len(t_tools) = 16
    /\ ~t_env.secret.utf8

\* C22 (as stated): for a delivered request answered 2xx with a JSON body,
\* call_orchestrator returns the body's `data` object; in the three failure
\* cases it returns an error.
C22_Orig_ReturnsDataObject ==
    t_ret # <<>> =>
        LET x == t_ret[1].exchange
            r == t_ret[1].result
        IN  IF x.delivered /\ x.body.valid /\ IsSuccess(x.status)
            THEN r.ok /\ r.body = x.body.data
            ELSE ~r.ok

\* C22 (amended): for a delivered request answered 2xx with a JSON body,
\* call_orchestrator returns the whole body, of which `data` is one member
\* beside `success` and `error`; it returns an error when the request was not
\* delivered, when the body is not JSON (whatever the status), and when the
\* body is JSON and the status is not 2xx, the error then carrying the status
\* and the body's `error` text, or "Unknown error" if that is not a string.
C22_ReturnsBodyOrError ==
    t_ret # <<>> =>
        LET x == t_ret[1].exchange
            r == t_ret[1].result
        IN  /\ r.ok <=> (x.delivered /\ x.body.valid /\ IsSuccess(x.status))
            /\ r.ok => /\ r.body = x.body
                       /\ r.body.data = x.body.data
                       /\ r.body.success = x.body.success
            /\ ~x.delivered => r.err = <<"error sending request">>
            /\ (x.delivered /\ ~x.body.valid) => r.err = <<"error decoding response body">>
            /\ (x.delivered /\ x.body.valid /\ ~IsSuccess(x.status)) =>
                  /\ Len(r.err) = 4 /\ r.err[2] = x.status
                  /\ r.err[4] = IF x.body.error.t = "string" THEN x.body.error.s
                                ELSE "Unknown error"
C22_Witness ==
    /\ t_ret # <<>>
    /\ t_ret[1].exchange.delivered
    /\ t_ret[1].exchange.status = 404
    /\ ~t_ret[1].result.ok
    /\ Len(t_ret[1].result.err) = 4
    /\ t_ret[1].result.err[4] = "insufficient balance"

\* C23: ExecuteSwapTool::execute returns Err, and sends no request, exactly
\* when sellToken, buyToken or sellAmount is missing or not a string.
\* Otherwise it sends one request and returns Ok: with success = true and no
\* error only if call_orchestrator returned Ok and the body's `success` is
\* the boolean true; with success = false and error set in every other case.
C23_SwapResultCases ==
    (t_call # <<>> /\ t_call[1].tool = "execute_swap") =>
        LET a == t_call[1].args
            bad == \/ a.sellToken.t # "string"
                   \/ a.buyToken.t # "string"
                   \/ a.sellAmount.t # "string"
        IN  /\ bad <=> (t_pc = "done" /\ t_result # <<>> /\ ~t_result[1].ok)
            /\ bad <=> (t_pc = "done" /\ t_request = <<>>)
            /\ bad => t_ret = <<>>
            /\ (~bad /\ t_pc = "done") =>
                  LET x == t_ret[1].exchange
                      good == /\ x.delivered /\ x.body.valid
                              /\ x.status \in 200..299
                              /\ x.body.success = JBool(TRUE)
                      tr == t_result[1].value[1]
                  IN  /\ t_result[1].ok
                      /\ tr.success <=> good
                      /\ tr.success => tr.error = <<>>
                      /\ ~tr.success => Len(tr.error) = 1
C23_Witness ==
    /\ t_pc = "done"
    /\ t_call[1].tool = "execute_swap"
    /\ t_ret # <<>>
    /\ t_ret[1].result.ok
    /\ t_ret[1].exchange.body.success = JStr("true")
    /\ ~t_result[1].value[1].success
    /\ t_result[1].value[1].error = <<"Swap failed">>

\* The tier word of a directive's banner.
C30_BannerTier(urgency) ==
    CASE urgency = Urgency("critical") -> "CRITICAL"
      [] urgency = Urgency("warning") -> "WARNING"
      [] urgency = Urgency("dead") -> "DEAD"
      [] OTHER -> "SAFE"

\* C30 (as stated): for the `data` of a check_kill_switch response, the tier,
\* the countdown flag, the required confirmations and the market cap of the
\* directive gather_observations and build_cycle_prompt make from it are
\* those CheckKillSwitchTool::execute reports for it.
C30_Orig_ReadersAgree ==
    (t_pc = "done" /\ t_call[1].tool = "check_kill_switch" /\ t_ret[1].result.ok) =>
        LET data == t_ret[1].result.body.data
            d == BuildCyclePrompt(MakeObservations(data, BalNull), DefaultSurvivalPrompt, 1)
            report == t_result[1].value[1].output[1]
        IN  /\ C30_BannerTier(d.urgency) = report.status
            /\ (d.countdown_note # "") = report.countdown_active
            /\ d.confirmations[3] = report.confirmations[3]
            /\ d.mcap = report.last_market_cap

\* Both variables hold a readable, non-empty value.
C24_Configured ==
    /\ env.url.set /\ env.url.utf8 /\ env.url.val # ""
    /\ env.token.set /\ env.token.utf8 /\ env.token.val # ""

\* C24: without a configured URL and token run returns an error before the
\* timer exists: no tick, no health call, no invocation, no agent::run.  With
\* them run enters the loop, whether config.survival.enabled is set or not.
C24_ExitOnlyBeforeLoop ==
    /\ ~C24_Configured =>
          /\ pc \in {"start", "returned_err"}
          /\ ~ticker.armed /\ ticks = 0 /\ health_calls = 0
          /\ invocations = <<>> /\ agent_call = <<>> /\ directive_cycles = <<>>
    /\ (C24_Configured /\ pc # "start") =>
          /\ pc \in {"tick_wait", "observing", "acting"}
          /\ ticker.armed
C24_Witness ==
    /\ C24_Configured
    /\ ~config.enabled
    /\ pc = "acting"
    /\ ticks = 2

\* C25: no time passes between the entry of the loop and the first tick;
\* a tick fires only while no cycle is in progress and the timer's deadline
\* has come, and it uses up that deadline.
C25_FirstTickAtOnceThenSerial ==
    /\ []((pc = "tick_wait" /\ ticks = 0) => (ticker.due = 0 /\ ENABLED Tick /\ ~ENABLED Tock))
    /\ [][ticks' # ticks =>
             /\ ticks' = ticks + 1
             /\ pc = "tick_wait" /\ in_progress = {}
             /\ ticker.due <= 0
             /\ ticker'.due = ticker.due + interval
             /\ pc' = "observing" /\ in_progress' = {ticks'}]_vars
C25_Witness ==
    /\ pc = "observing"
    /\ ticks = 1
    /\ interval = 31
    /\ ticker.due = 31

\* C26: the last health call is an error only while the loop waits for the
\* tick after a cycle that failed; in the Observing and Acting phases the last
\* call is the mark_component_ok made at the start of the cycle, whatever
\* happened in the cycles before and however far the cycle overruns.
C26_HealthOkWhileCycleRuns ==
    /\ pc \in {"observing", "acting"} =>
          (cycle_health # <<>> /\ Last(cycle_health) = HealthOk)
    /\ (cycle_health # <<>> /\ Last(cycle_health).op = "mark_component_error") =>
          /\ pc = "tick_wait" /\ in_progress = {}
          /\ \/ (gather_returns # <<>> /\ ~Last(gather_returns).ok)
             \/ (act_returns # <<>> /\ ~Last(act_returns).ok)
C26_Witness ==
    /\ pc = "acting"
    /\ act_fail_streak = 2
    /\ error_marks = 2
    /\ ticker.due < -TimeStep
    /\ Last(cycle_health) = HealthOk

\* C27: when both invocations returned Ok with a body that has no `data`,
\* gather_observations returns Ok with danger_level "unknown" and the
\* countdown inactive, the observe phase marks no error, and agent::run is
\* called with a directive that has the SAFE banner and no countdown clause.
C27_NoDataReadsAsSafe ==
    (ks_result = <<Ok(KsNull)>> /\ bal_result = <<Ok(BalNull)>> /\ pc # "observing") =>
        /\ Len(gather_returns) = 1 /\ gather_returns[1].ok
        /\ gather_returns[1].obs[1].danger_level = "unknown"
        /\ ~gather_returns[1].obs[1].is_countdown_active
        /\ cycle_health[1] = HealthOk
        /\ \A i \in 1..Len(cycle_health) :
              cycle_health[i].reason = <<>> \/ cycle_health[i].reason[1] # "observe failed: "
        /\ Len(built) = 1
        /\ built[1].urgency = "SAFE - No immediate danger. Focus on growth and strategy."
        /\ built[1].countdown_note = ""
        /\ Last(directive_cycles) = ticks
        /\ pc = "acting" => agent_call = <<[message |-> <<built[1]>>]>>
C27_Witness ==
    /\ ks_result = <<Ok(KsNull)>> /\ bal_result = <<Ok(BalNull)>>
    /\ pc = "acting"
    /\ agent_call[1].message[1].urgency = "SAFE - No immediate danger. Focus on growth and strategy."
    /\ agent_call[1].message[1].confirmations = <<0, "/", 3>>
    /\ cycle_health = <<HealthOk>>

\* The events and metrics that set no mood.
C28_NonSetting(e) ==
    \/ e.kind \in {"HeartbeatTick", "ChannelMessage", "TokensUsed", "OtherMetric"}
    \/ e.kind \in {"LlmResponse", "ToolCall"} /\ e.success

\* C28: a call for HeartbeatTick, ChannelMessage, a successful LlmResponse, a
\* successful ToolCall or a metric never reaches set_mood, and the mood only
\* changes in the set_mood of a call for another event; made alone, such a
\* call leaves the mood as it was and prints one line with that mood, except
\* that a metric other than TokensUsed prints nothing and returns at once.
C28_NonSettingLeaveMood ==
    /\ [](\A c \in BagToSet(obs_calls) :
             /\ C28_NonSetting(c.event) => c.at = "emit"
             /\ c.event.kind # "OtherMetric")
    /\ [][mood' # mood =>
             \E c \in BagToSet(obs_calls) :
                 c.at = "set_mood" /\ ~C28_NonSetting(c.event)]_vars
    /\ [][(obs_calls = EmptyBag /\ obs_calls' = EmptyBag) =>
             (mood' = mood /\ last_line' = last_line)]_vars
    /\ [][\A e \in ObserverEvents \cup ObserverMetrics :
             (C28_NonSetting(e) /\ obs_calls = SetToBag({Call("emit", e)})
                  /\ obs_calls' = EmptyBag) =>
                 /\ mood' = mood
                 /\ last_line'[1].mood = mood
                 /\ e.kind = "TokensUsed" => last_line'[1].action = "metric"
                 /\ e.kind = "HeartbeatTick" => last_line'[1].action = "idle"
                 /\ e.kind = "ChannelMessage" => last_line'[1].action = "communicate"
                 /\ e.kind = "LlmResponse" => last_line'[1].action = "think"
                 /\ e.kind = "ToolCall" => last_line'[1].action = "tool"]_vars
C28_Witness ==
    /\ ~overlapped /\ obs_calls = EmptyBag
    /\ last_setter = <<Event("Error", "", TRUE)>>
    /\ mood = "anxious"
    /\ last_line = <<[mood |-> "anxious", action |-> "metric"]>>

\* C29 (as stated): the line a call prints for a mood-setting event carries
\* the mood that event assigns, whatever other calls are in progress.
C29_Orig_LineCarriesOwnMood ==
    [][\A c \in BagToSet(obs_calls) :
          (c.at = "emit" /\ ~C28_NonSetting(c.event)
               /\ obs_calls' = obs_calls (-) SetToBag({c})) =>
              last_line'[1].mood = C19_AssignedMood(c.event)]_vars

====
